---- MODULE Spec2Model ----
(***************************************************************************)
(* A model of the MLS client session manager of rust_layer/src/lib.rs:     *)
(* MlsClient, its registry of group sessions, the protocol messages its    *)
(* operations exchange and the metadata records save_state writes.          *)
(*                                                                          *)
(* The OpenMLS engine the driver calls is modelled at its interface: a      *)
(* group session is identified by its group id and by the commit that       *)
(* produced its current epoch, a signature is the identity of the key that  *)
(* made it, and a ciphertext can be decrypted once per session and epoch.   *)
(* Every fallible call of the driver (`.map_err(..)?`) has its error exit;  *)
(* a failure whose cause lies outside the modelled state (key generation,   *)
(* the provider's storage, the TLS codec, the filesystem) is the operation's*)
(* fault the call may meet, "none" when every call succeeds on its merits.  *)
(*                                                                          *)
(* Each public operation is an operator named as in the source that maps    *)
(* the state and the arguments to the outcomes the call can have: one per   *)
(* fault that can strike on the path the call takes, and the one without.   *)
(* An outcome holds the result returned and the state left behind; the      *)
(* action named after the operation applies one of them.                    *)
(***************************************************************************)
EXTENDS Integers, Sequences, FiniteSets, TLC

\* ------------------------------------------------------------------ bounds

\* Key packages create_identity may issue in one run.
MaxKeyPackages == 2
\* Commits add_member may generate in one run.
MaxCommits == 2
\* Application messages encrypt_message may produce in one run.
MaxMessages == 1
\* Groups create_group may create in one run.
MaxGroups == 1
\* Restarts (a new MlsClient on the same storage path) of one client.
MaxRestarts == 1
\* Key packages and commits in a run of one client on its own.
MaxSoloKeyPackages == 3
MaxSoloCommits == 3
\* Groups in a run in which the clients hold several groups.
MaxPairGroups == 2

\* Key packages, commits, application messages and groups in a run in which
\* several threads call into one client.
MaxThreadKeyPackages == 1

MaxThreadCommits == 1

MaxThreadMessages == 1

MaxThreadGroups == 1

Clients == {"A", "B"}

\* The threads of one host application that call into the same MlsClient.
Threads == {1, 2}

\* The clients whose host application checkpoints and restarts them.
Hosts == {"A"}

Names == {"bob"}

Plaintexts == {"hi"}

\* ------------------------------------------------------------------- codec

HexDigits == <<"0", "1", "2", "3", "4", "5", "6", "7", "8", "9", "a", "b", "c", "d", "e", "f">>

UpperHexDigits == <<"0", "1", "2", "3", "4", "5", "6", "7", "8", "9", "A", "B", "C", "D", "E", "F">>

\* An encoder that writes uppercase digits.
RECURSIVE HexEncodeUpper(_)
HexEncodeUpper(bytes) ==
  IF bytes = <<>> THEN <<>>
  ELSE <<UpperHexDigits[(Head(bytes) \div 16) + 1], UpperHexDigits[(Head(bytes) % 16) + 1]>>
       \o HexEncodeUpper(Tail(bytes))

\* hex::encode: two lowercase digits per byte, high nibble first.
RECURSIVE HexEncode(_)
HexEncode(bytes) ==
  IF bytes = <<>> THEN <<>>
  ELSE <<HexDigits[(Head(bytes) \div 16) + 1], HexDigits[(Head(bytes) % 16) + 1]>>
       \o HexEncode(Tail(bytes))

\* The value of a hex digit, either case.
HexValue ==
  [ch \in {HexDigits[i] : i \in 1..16} \cup {UpperHexDigits[i] : i \in 1..16} |->
     (CHOOSE i \in 1..16 : HexDigits[i] = ch \/ UpperHexDigits[i] = ch) - 1]

IsHexDigit(ch) == ch \in DOMAIN HexValue

RECURSIVE HexBytes(_)
HexBytes(text) ==
  IF text = <<>> THEN <<>>
  ELSE <<16 * HexValue[text[1]] + HexValue[text[2]]>> \o HexBytes(SubSeq(text, 3, Len(text)))

\* hex::decode: fails on an odd length or on a character that is no hex digit
\* (either case of a digit is accepted).
HexDecode(text) ==
  IF Len(text) % 2 # 0 \/ \E i \in 1..Len(text) : ~IsHexDigit(text[i])
  THEN [ok |-> FALSE, bytes |-> <<>>]
  ELSE [ok |-> TRUE, bytes |-> HexBytes(text)]

\* The first byte of a wire message names what it holds.
WireTag(kind) ==
  CASE kind = "key_package" -> 1
    [] kind = "commit" -> 2
    [] kind = "welcome" -> 3
    [] kind = "application" -> 4

\* tls_serialize_detached of a key package: the package and the validity of
\* its signature (0: the signature its owner made, 1: tampered in transit).
KeyPackageBytes(kp, tampered) == <<WireTag("key_package"), kp, IF tampered THEN 1 ELSE 0>>

\* tls_serialize_detached of an MlsMessageOut.
MessageBytes(kind, idx) == <<WireTag(kind), idx>>

\* The group id MlsGroup::new draws for the n-th group created.
GroupIdOf(n) == <<(n * 171) % 256>>

\* ------------------------------------------------------------------- state

VARIABLES
  groups,       \* MlsClientState.groups of each client: hex group id -> session
  identity,     \* MlsClientState.signer and .credential of each client
  kpStore,      \* key package bundles held in each client's provider storage
  keyPackages,  \* every key package issued: <<owner, name, key>>
  commits,      \* every commit generated, and with it its welcome
  messages,     \* every application message produced
  disk,         \* the storage directory of each client
  incarnation,  \* how many times each client was constructed anew
  nextGroup,    \* how many groups were created
  applied,      \* history: the commits each client has merged through process_commit
  lock,         \* MlsClient.state of client "A": the thread that holds the Mutex, or 0
  calls         \* the call each thread of client "A"'s host is making, and where it is

vars == <<groups, identity, kpStore, keyPackages, commits, messages, disk,
          incarnation, nextGroup, applied, lock, calls>>

threadVars == <<lock, calls>>

netVars == <<keyPackages, commits, messages>>

\* The key pair SignatureKeyPair::new generates: named by who generated it.
SignerKey(c, inc) == [by |-> "new", owner |-> c, n |-> inc]

IdentityKey(kp) == [by |-> "create_identity", owner |-> "", n |-> kp]

\* SignatureKeyPair::to_public_vec: the public half names the pair.
PublicKey(key) == key

EmptyRegistry == [k \in {} |-> 0]

EmptyDisk == [exists |-> FALSE, files |-> [k \in {} |-> 0]]

\* A thread that is not inside a call.
NoCall == [pc |-> "idle", op |-> "", arg |-> <<>>, out |-> <<>>, done |-> {}, cur |-> <<>>]

\* The result of a call.
Ok(val) == [kind |-> "Ok", group_id |-> <<>>, val |-> val]

Err(kind) == [kind |-> kind, group_id |-> <<>>, val |-> <<>>]

GroupNotFound(group_id) == [kind |-> "GroupNotFound", group_id |-> group_id, val |-> <<>>]

\* MlsClient::new, before its load_state: a fresh signer, a credential that
\* embeds its public key, and an empty registry.
NewIdentity(c, inc) ==
  [signer |-> SignerKey(c, inc),
   credential |-> [identity |-> "default_user",
                   signature_key |-> PublicKey(SignerKey(c, inc))]]

Init ==
  /\ groups = [c \in Clients |-> EmptyRegistry]
  /\ identity = [c \in Clients |-> NewIdentity(c, 0)]
  /\ kpStore = [c \in Clients |-> {}]
  /\ keyPackages = <<>>
  /\ commits = <<>>
  /\ messages = <<>>
  /\ disk = [c \in Clients |-> EmptyDisk]
  /\ incarnation = [c \in Clients |-> 0]
  /\ nextGroup = 0
  /\ applied = [c \in Clients |-> {}]
  /\ lock = 0
  /\ calls = [t \in Threads |-> NoCall]

\* ------------------------------------------------------------------ inputs

\* Text that is no hex (odd length; a non-hex character) and hex that is no
\* wire message.
MalformedInputs == {<<"0">>, <<"z", "z">>, <<"f", "f">>}

\* The wire text of the key packages and messages a run can hold.
KeyPackageText ==
  [kp \in 1..(MaxSoloKeyPackages + 1), t \in BOOLEAN |-> HexEncode(KeyPackageBytes(kp, t))]

MessageText ==
  [kind \in {"commit", "welcome", "application"}, i \in 1..(MaxSoloCommits + MaxMessages + 1) |->
     HexEncode(MessageBytes(kind, i))]

KeyPackageInputs ==
  {KeyPackageText[kp, t] : kp \in 1..Len(keyPackages), t \in BOOLEAN} \cup MalformedInputs

SentCommits == {i \in 1..Len(commits) : commits[i].sent}

MessageInputs ==
  {MessageText["commit", i] : i \in SentCommits}
    \cup {MessageText["welcome", i] : i \in SentCommits}
    \cup {MessageText["application", i] : i \in 1..Len(messages)}
    \cup MalformedInputs

\* Lowercase hex of every group id assigned so far, and the uppercase
\* spelling of the first, which names no group.
GroupIdInputs ==
  {HexEncode(GroupIdOf(n)) : n \in 1..nextGroup} \cup {<<"A", "B">>}

\* ------------------------------------------------------------------ engine

\* KeyPackageIn::tls_deserialize.
DeserializeKeyPackage(bytes) ==
  IF /\ Len(bytes) = 3
     /\ bytes[1] = WireTag("key_package")
     /\ bytes[2] \in 1..Len(keyPackages)
     /\ bytes[3] \in {0, 1}
  THEN [ok |-> TRUE, kp |-> bytes[2], valid |-> bytes[3] = 0]
  ELSE [ok |-> FALSE, kp |-> 0, valid |-> FALSE]

\* MlsMessageIn::tls_deserialize.
DeserializeMessage(bytes) ==
  IF /\ Len(bytes) = 2
     /\ \/ bytes[1] \in {WireTag("commit"), WireTag("welcome")} /\ bytes[2] \in SentCommits
        \/ bytes[1] = WireTag("application") /\ bytes[2] \in 1..Len(messages)
  THEN [ok |-> TRUE,
        kind |-> CASE bytes[1] = WireTag("commit") -> "commit"
                   [] bytes[1] = WireTag("welcome") -> "welcome"
                   [] OTHER -> "application",
        idx |-> bytes[2]]
  ELSE [ok |-> FALSE, kind |-> "", idx |-> 0]

\* MlsMessageIn::try_into_protocol_message: a welcome is no protocol message.
IsProtocolMessage(msg) == msg.kind \in {"commit", "application"}

\* The key packages the commits leading to state st have added to the tree.
RECURSIVE AddedBy(_)
AddedBy(st) == IF st = 0 THEN {} ELSE {commits[st].kp} \cup AddedBy(commits[st].parent)

\* MlsGroup::new: a group of one member, whose leaf carries the credential's
\* public key, at epoch 0, configured with use_ratchet_tree_extension(true).
NewGroup(c, n) ==
  [gid |-> GroupIdOf(n), st |-> 0, epoch |-> 0,
   leaf |-> identity[c].credential.signature_key, pending |-> FALSE, used |-> {},
   tree_ext |-> TRUE]

\* Whether a signature verifies: the key that signed is the key of the leaf
\* the message names as its sender.
Verifies(item) == PublicKey(item.sig) = item.sender

\* MlsGroup::add_members: the commit (and its welcome) that adds key package
\* kp to session g, signed with the signer the driver passes; the welcome
\* carries the ratchet tree if the session is configured to send it.
CommitOf(c, g, kp, sent) ==
  [gid |-> g.gid, parent |-> g.st, epoch |-> g.epoch + 1, sender |-> g.leaf,
   sig |-> identity[c].signer, kp |-> kp, tree |-> g.tree_ext, sent |-> sent]

\* MlsGroup::add_members refuses when the group holds a pending commit or
\* the key package's keys are already in the tree.
CanAddMembers(g, kp) == ~g.pending /\ kp \notin AddedBy(g.st)

\* A merge that installs the new state but leaves the epoch counter behind.
MergeCommitSameEpoch(g, idx) ==
  [g EXCEPT !.st = idx, !.pending = FALSE, !.used = {}]

\* MlsGroup::merge_pending_commit and merge_staged_commit: the session moves
\* to the state the commit produces, one epoch on, with fresh message secrets.
MergeCommit(g, idx) ==
  [g EXCEPT !.st = idx, !.epoch = g.epoch + 1, !.pending = FALSE, !.used = {}]

\* The message a protocol message names.
ItemOf(msg) == IF msg.kind = "application" THEN messages[msg.idx] ELSE commits[msg.idx]

\* The state a message was made in.
MadeIn(msg) == IF msg.kind = "application" THEN messages[msg.idx].st ELSE commits[msg.idx].parent

\* MlsGroup::process_message decrypts only a message of this group and this
\* epoch that another member sent and whose ratchet secret is still unused.
CanDecrypt(g, msg) ==
  /\ ItemOf(msg).gid = g.gid
  /\ MadeIn(msg) = g.st
  /\ ItemOf(msg).sender # g.leaf
  /\ <<msg.kind, msg.idx>> \notin g.used

\* Decryption consumes the sender's ratchet secret of that message ...
AfterDecrypt(g, msg) == [g EXCEPT !.used = @ \cup {<<msg.kind, msg.idx>>}]

\* ... and the signature is verified on the decrypted content.
ProcessMessage(g, msg) ==
  IF ~CanDecrypt(g, msg)
  THEN [ok |-> FALSE, g |-> g]
  ELSE [ok |-> Verifies(ItemOf(msg)), g |-> AfterDecrypt(g, msg)]

\* StagedWelcome::new_from_welcome and into_group: the session of the member
\* the commit added, at the epoch the commit produced, under the default
\* MlsGroupJoinConfig (no ratchet tree extension).
GroupFromWelcome(idx) ==
  [gid |-> commits[idx].gid, st |-> idx, epoch |-> commits[idx].epoch,
   leaf |-> PublicKey(keyPackages[commits[idx].kp].key), pending |-> FALSE, used |-> {},
   tree_ext |-> FALSE]

\* HashMap::insert.
InsertAlone(reg, key, g) == [k \in {key} |-> g]

Insert(reg, key, g) == [k \in (DOMAIN reg) \cup {key} |-> IF k = key THEN g ELSE reg[k]]

\* -------------------------------------------------------------- operations

\* The variables only save_state and a restart write.
hostVars == <<disk, incarnation>>

\* A create_identity that makes the new signer and credential the client's.
create_identity_adopting(c, name) ==
  LET kp == Len(keyPackages) + 1
      failed(fault, kind) ==
        [fault |-> fault, res |-> Err(kind), keyPackages |-> keyPackages, store |-> kpStore[c],
         identity |-> identity[c], reg |-> groups[c]]
  IN
  {failed("keygen", "CryptoError"),
   failed("build", "CryptoError"),
   failed("serialize", "SerializationError"),
   [fault |-> "none",
    res |-> Ok(HexEncode(KeyPackageBytes(kp, FALSE))),
    keyPackages |-> Append(keyPackages, [owner |-> c, name |-> name, key |-> IdentityKey(kp)]),
    store |-> kpStore[c] \cup {kp},
    identity |-> [signer |-> IdentityKey(kp),
                  credential |-> [identity |-> name,
                                  signature_key |-> PublicKey(IdentityKey(kp))]],
    reg |-> groups[c]]}

create_identity(c, name) ==
  LET kp == Len(keyPackages) + 1
      failed(fault, kind) ==
        [fault |-> fault, res |-> Err(kind), keyPackages |-> keyPackages, store |-> kpStore[c],
         identity |-> identity[c], reg |-> groups[c]]
  IN
  {failed("keygen", "CryptoError"),
   failed("build", "CryptoError"),
   failed("serialize", "SerializationError"),
   \* the new signer and credential go into the key package only
   [fault |-> "none",
    res |-> Ok(HexEncode(KeyPackageBytes(kp, FALSE))),
    keyPackages |-> Append(keyPackages, [owner |-> c, name |-> name, key |-> IdentityKey(kp)]),
    store |-> kpStore[c] \cup {kp},
    identity |-> identity[c], reg |-> groups[c]]}

list_active_groups(c) == Ok(DOMAIN groups[c])

get_group_info(c, group_id) ==
  IF group_id \notin DOMAIN groups[c]
  THEN GroupNotFound(group_id)
  ELSE Ok([group_id |-> group_id,
           epoch |-> groups[c][group_id].epoch,
           member_count |-> 1 + Cardinality(AddedBy(groups[c][group_id].st))])

\* A create_group that registers the session before it knows the engine's
\* verdict.
create_group_registering_first(c) ==
  LET group == NewGroup(c, nextGroup + 1)
      actual_group_id == HexEncode(group.gid)
  IN
  {[fault |-> "new", res |-> Err("Generic"), reg |-> Insert(groups[c], actual_group_id, group)],
   [fault |-> "none", res |-> Ok(actual_group_id),
    reg |-> Insert(groups[c], actual_group_id, group)]}

create_group(c) ==
  LET group == NewGroup(c, nextGroup + 1)
      actual_group_id == HexEncode(group.gid)
  IN
  {[fault |-> "new", res |-> Err("Generic"), reg |-> groups[c]],
   [fault |-> "none", res |-> Ok(actual_group_id),
    reg |-> Insert(groups[c], actual_group_id, group)]}

add_member(c, group_id, new_member_key_package_hex) ==
  LET decoded == HexDecode(new_member_key_package_hex)
      key_package_in == DeserializeKeyPackage(decoded.bytes)
      group == groups[c][group_id]
      idx == Len(commits) + 1
      unchanged(fault, res) ==
        [fault |-> fault, res |-> res, reg |-> groups[c], commits |-> commits]
      merged(fault, res) ==
        [fault |-> fault, res |-> res,
         reg |-> [groups[c] EXCEPT ![group_id] = MergeCommit(group, idx)],
         commits |-> Append(commits, CommitOf(c, group, key_package_in.kp, res.kind = "Ok"))]
  IN
  IF ~decoded.ok \/ ~key_package_in.ok
  THEN {unchanged("none", Err("SerializationError"))}
  ELSE IF ~key_package_in.valid
  THEN {unchanged("none", Err("CryptoError"))}
  ELSE {unchanged("validate", Err("CryptoError"))} \cup
  IF group_id \notin DOMAIN groups[c]
  THEN {unchanged("none", GroupNotFound(group_id))}
  ELSE IF ~CanAddMembers(group, key_package_in.kp)
  THEN {unchanged("none", Err("Generic"))}
  ELSE {unchanged("add_members", Err("Generic")),
        \* the commit stays pending in the session
        [fault |-> "merge_pending_commit", res |-> Err("Generic"),
         reg |-> [groups[c] EXCEPT ![group_id].pending = TRUE], commits |-> commits],
        \* the commit is merged before the results are serialized
        merged("serialize_commit", Err("SerializationError")),
        merged("serialize_welcome", Err("SerializationError")),
        merged("none", Ok([commit |-> HexEncode(MessageBytes("commit", idx)),
                           welcome |-> HexEncode(MessageBytes("welcome", idx))]))}

process_commit(c, group_id, commit_hex) ==
  LET decoded == HexDecode(commit_hex)
      mls_message == DeserializeMessage(decoded.bytes)
      group == groups[c][group_id]
      processed == ProcessMessage(group, mls_message)
      outcome(fault, res, g) ==
        [fault |-> fault, res |-> res, reg |-> [groups[c] EXCEPT ![group_id] = g]]
  IN
  IF ~decoded.ok \/ ~mls_message.ok \/ ~IsProtocolMessage(mls_message)
  THEN {[fault |-> "none", res |-> Err("SerializationError"), reg |-> groups[c]]}
  ELSE IF group_id \notin DOMAIN groups[c]
  THEN {[fault |-> "none", res |-> GroupNotFound(group_id), reg |-> groups[c]]}
  ELSE {outcome("process_message", Err("Generic"), group)} \cup
  IF ~processed.ok
  THEN {outcome("none", Err("Generic"), processed.g)}
  ELSE IF mls_message.kind = "commit"
  THEN {outcome("merge_staged_commit", Err("Generic"), processed.g),
        outcome("none", Ok(<<>>), MergeCommit(processed.g, mls_message.idx))}
  ELSE \* not a staged commit: nothing is merged
       {outcome("none", Ok(<<>>), processed.g)}

\* A process_welcome that takes a commit for the welcome made with it.
process_welcome_of_commit(c, welcome_hex) ==
  LET decoded == HexDecode(welcome_hex)
      mls_message == DeserializeMessage(decoded.bytes)
      welcome == commits[mls_message.idx]
      group == GroupFromWelcome(mls_message.idx)
      group_id == HexEncode(group.gid)
      unchanged(fault, res) ==
        [fault |-> fault, res |-> res, reg |-> groups[c], store |-> kpStore[c]]
      \* the key package is used up once the welcome is decrypted
      failed(fault) ==
        [fault |-> fault, res |-> Err("Generic"), reg |-> groups[c],
         store |-> kpStore[c] \ {welcome.kp}]
  IN
  IF ~decoded.ok \/ ~mls_message.ok
  THEN {unchanged("none", Err("SerializationError"))}
  ELSE IF mls_message.kind = "application"
  THEN {unchanged("none", Err("Generic"))}
  ELSE {unchanged("new_from_welcome", Err("Generic"))} \cup
  IF welcome.kp \notin kpStore[c]
  THEN {unchanged("none", Err("Generic"))}
  ELSE IF ~welcome.tree \/ ~Verifies(welcome)
  THEN \* no ratchet tree was passed (None), or the group info's signature is bad
       {failed("none")}
  ELSE {failed("into_group"),
        [fault |-> "none", res |-> Ok(group_id),
         reg |-> Insert(groups[c], group_id, group),
         store |-> kpStore[c] \ {welcome.kp}]}

process_welcome(c, welcome_hex) ==
  LET decoded == HexDecode(welcome_hex)
      mls_message == DeserializeMessage(decoded.bytes)
      welcome == commits[mls_message.idx]
      group == GroupFromWelcome(mls_message.idx)
      group_id == HexEncode(group.gid)
      unchanged(fault, res) ==
        [fault |-> fault, res |-> res, reg |-> groups[c], store |-> kpStore[c]]
      \* the key package is used up once the welcome is decrypted
      failed(fault) ==
        [fault |-> fault, res |-> Err("Generic"), reg |-> groups[c],
         store |-> kpStore[c] \ {welcome.kp}]
  IN
  IF ~decoded.ok \/ ~mls_message.ok
  THEN {unchanged("none", Err("SerializationError"))}
  ELSE IF mls_message.kind # "welcome"
  THEN {unchanged("none", Err("Generic"))}
  ELSE {unchanged("new_from_welcome", Err("Generic"))} \cup
  IF welcome.kp \notin kpStore[c]
  THEN {unchanged("none", Err("Generic"))}
  ELSE IF ~welcome.tree \/ ~Verifies(welcome)
  THEN \* no ratchet tree was passed (None), or the group info's signature is bad
       {failed("none")}
  ELSE {failed("into_group"),
        [fault |-> "none", res |-> Ok(group_id),
         reg |-> Insert(groups[c], group_id, group),
         store |-> kpStore[c] \ {welcome.kp}]}

encrypt_message(c, group_id, plaintext) ==
  LET group == groups[c][group_id]
      failed(fault, res) ==
        [fault |-> fault, res |-> res, messages |-> messages, reg |-> groups[c]]
  IN
  IF group_id \notin DOMAIN groups[c]
  THEN {failed("none", GroupNotFound(group_id))}
  ELSE IF group.pending
  THEN {failed("none", Err("Generic"))}
  ELSE {failed("create_message", Err("Generic")),
        failed("serialize", Err("SerializationError")),
        [fault |-> "none",
         res |-> Ok(HexEncode(MessageBytes("application", Len(messages) + 1))),
         messages |-> Append(messages,
                             [gid |-> group.gid, st |-> group.st, sender |-> group.leaf,
                              sig |-> identity[c].signer, plaintext |-> plaintext]),
         reg |-> groups[c]]}

\* A decrypt_message that looks the group up before it decodes its input.
decrypt_message_lookup_first(c, group_id, ciphertext_hex) ==
  LET decoded == HexDecode(ciphertext_hex)
      mls_message == DeserializeMessage(decoded.bytes)
      group == groups[c][group_id]
      processed == ProcessMessage(group, mls_message)
      outcome(fault, res, g) ==
        [fault |-> fault, res |-> res, reg |-> [groups[c] EXCEPT ![group_id] = g]]
  IN
  IF group_id \notin DOMAIN groups[c]
  THEN {[fault |-> "none", res |-> GroupNotFound(group_id), reg |-> groups[c]]}
  ELSE IF ~decoded.ok \/ ~mls_message.ok \/ ~IsProtocolMessage(mls_message)
  THEN {[fault |-> "none", res |-> Err("SerializationError"), reg |-> groups[c]]}
  ELSE {outcome("process_message", Err("Generic"), group),
        outcome("none",
                IF ~processed.ok THEN Err("Generic")
                ELSE IF mls_message.kind = "application"
                THEN Ok(messages[mls_message.idx].plaintext)
                ELSE Ok(""),
                processed.g)}

decrypt_message(c, group_id, ciphertext_hex) ==
  LET decoded == HexDecode(ciphertext_hex)
      mls_message == DeserializeMessage(decoded.bytes)
      group == groups[c][group_id]
      processed == ProcessMessage(group, mls_message)
      outcome(fault, res, g) ==
        [fault |-> fault, res |-> res, reg |-> [groups[c] EXCEPT ![group_id] = g]]
  IN
  IF ~decoded.ok \/ ~mls_message.ok \/ ~IsProtocolMessage(mls_message)
  THEN {[fault |-> "none", res |-> Err("SerializationError"), reg |-> groups[c]]}
  ELSE IF group_id \notin DOMAIN groups[c]
  THEN {[fault |-> "none", res |-> GroupNotFound(group_id), reg |-> groups[c]]}
  ELSE {outcome("process_message", Err("Generic"), group),
        outcome("none",
                IF ~processed.ok THEN Err("Generic")
                ELSE IF mls_message.kind = "application"
                THEN \* the bytes of a Rust String: always UTF-8
                     Ok(messages[mls_message.idx].plaintext)
                ELSE Ok(""),
                processed.g)}

\* The credential identity of a leaf: the default user's for a group this
\* client created, the name given to create_identity for one it joined.
LeafIdentity(key) == IF key.by = "new" THEN "default_user" ELSE keyPackages[key.n].name

\* The GroupState record save_state writes for the session under key.
GroupStateOf(c, key) ==
  LET group == groups[c][key] IN
  [group_id |-> key,
   epoch |-> group.epoch,
   group_info_data |-> [gid |-> group.gid, epoch |-> group.epoch, sig |-> identity[c].signer],
   credential |-> [credential_type |-> "Basic",
                   identity |-> LeafIdentity(group.leaf),
                   signature_key |-> group.leaf],
   intact |-> TRUE]

\* What a write that failed part-way leaves behind: a file that is no JSON.
TornFile ==
  [group_id |-> <<>>, epoch |-> 0,
   group_info_data |-> [gid |-> <<>>, epoch |-> 0, sig |-> SignerKey("", 0)],
   credential |-> [credential_type |-> "", identity |-> "", signature_key |-> SignerKey("", 0)],
   intact |-> FALSE]

\* A write that keeps the record a file already holds.
WriteFilesKeepingOld(c, files, keys, torn) ==
  [k \in (DOMAIN files) \cup keys \cup torn |->
     IF k \in DOMAIN files THEN files[k]
     ELSE IF k \in keys THEN GroupStateOf(c, k) ELSE TornFile]

\* fs::write of the records of the sessions in `keys` (and the torn files).
WriteFiles(c, files, keys, torn) ==
  [k \in (DOMAIN files) \cup keys \cup torn |->
     IF k \in keys THEN GroupStateOf(c, k) ELSE IF k \in torn THEN TornFile ELSE files[k]]

\* save_state walks the registry in the HashMap's order and stops at the first
\* group that fails: `done` are the groups written before the group `failing`,
\* and a failed write may leave its file torn.
save_state(c) ==
  LET keys == DOMAIN groups[c]
      wrote(fault, res, done, torn) ==
        [fault |-> fault, res |-> res, reg |-> groups[c],
         disk |-> [exists |-> TRUE, files |-> WriteFiles(c, disk[c].files, done, torn)]]
  IN
  {[fault |-> "create_dir_all", res |-> Err("IoError"), reg |-> groups[c], disk |-> disk[c]],
   wrote("none", Ok(<<>>), keys, {})}
    \cup {wrote("export_group_info", Err("Generic"), done, {}) :
            done \in UNION {SUBSET (keys \ {failing}) : failing \in keys}}
    \cup {wrote("serialize", Err("SerializationError"), done, {}) :
            done \in UNION {SUBSET (keys \ {failing}) : failing \in keys}}
    \cup UNION {{wrote("write", Err("IoError"), done, torn) :
                   done \in SUBSET (keys \ {failing}), torn \in {{}, {failing}}} :
                failing \in keys}

\* What reading the storage directory can return: the group_id of every
\* record, or the error of the first entry that fails in directory order.
ReadGroupStates(d) ==
  IF ~d.exists THEN {[fault |-> "none", res |-> Ok({})]}
  ELSE {[fault |-> "read_dir", res |-> Err("IoError")]}
         \cup (IF DOMAIN d.files # {}
               THEN {[fault |-> "read_to_string", res |-> Err("IoError")]}
               ELSE {})
         \cup (IF \E k \in DOMAIN d.files : ~d.files[k].intact
               THEN {[fault |-> "none", res |-> Err("SerializationError")]}
               ELSE {[fault |-> "none",
                      res |-> Ok({d.files[k].group_id : k \in DOMAIN d.files})]})

\* A load_state that registers a session for every record it reads.
load_state_registering(c) ==
  {[fault |-> read.fault,
    res |-> IF read.res.kind = "Ok" THEN Ok(<<>>) ELSE read.res,
    reg |-> IF read.res.kind # "Ok" THEN groups[c]
            ELSE [k \in (DOMAIN groups[c]) \cup read.res.val |->
                    IF k \in DOMAIN groups[c] THEN groups[c][k]
                    ELSE [gid |-> disk[c].files[k].group_info_data.gid, st |-> 0,
                          epoch |-> disk[c].files[k].epoch,
                          leaf |-> disk[c].files[k].credential.signature_key,
                          pending |-> FALSE, used |-> {}, tree_ext |-> FALSE]]] :
     read \in ReadGroupStates(disk[c])}

\* load_state keeps nothing of what it reads (loaded_groups is a local): it
\* returns () or the error, and the registry is as it was.
load_state(c) ==
  {[fault |-> read.fault,
    res |-> IF read.res.kind = "Ok" THEN Ok(<<>>) ELSE read.res,
    reg |-> groups[c]] :
     read \in ReadGroupStates(disk[c])}

list_saved_groups(c) ==
  {[fault |-> read.fault, res |-> read.res, reg |-> groups[c]] :
     read \in ReadGroupStates(disk[c])}

\* MlsClient::new on the storage path of client c: a fresh signer and
\* credential and an empty registry; the result of its load_state is dropped.
new(c) ==
  [identity |-> NewIdentity(c, incarnation[c] + 1),
   reg |-> EmptyRegistry,
   store |-> {}]

\* ----------------------------------------------------------------- actions

CreateIdentityCall(c) ==
  /\ \E name \in Names : \E o \in create_identity(c, name) :
       /\ keyPackages' = o.keyPackages
       /\ kpStore' = [kpStore EXCEPT ![c] = o.store]
       /\ identity' = [identity EXCEPT ![c] = o.identity]
       /\ groups' = [groups EXCEPT ![c] = o.reg]
  /\ UNCHANGED <<threadVars, commits, messages, hostVars, nextGroup, applied>>

CreateIdentity(c) == Len(keyPackages) < MaxKeyPackages /\ CreateIdentityCall(c)

ListActiveGroups(c) ==
  /\ list_active_groups(c).kind = "Ok"
  /\ UNCHANGED vars

GetGroupInfo(c) ==
  /\ \E group_id \in GroupIdInputs : get_group_info(c, group_id).kind \in {"Ok", "GroupNotFound"}
  /\ UNCHANGED vars

CreateGroupCall(c) ==
  /\ \E o \in create_group(c) :
       /\ groups' = [groups EXCEPT ![c] = o.reg]
       /\ nextGroup' = IF o.res.kind = "Ok" THEN nextGroup + 1 ELSE nextGroup
  /\ UNCHANGED <<threadVars, identity, kpStore, netVars, hostVars, applied>>

CreateGroup(c) == nextGroup < MaxGroups /\ CreateGroupCall(c)

AddMemberCall(c) ==
  /\ \E group_id \in GroupIdInputs, input \in KeyPackageInputs :
       \E o \in add_member(c, group_id, input) :
         /\ groups' = [groups EXCEPT ![c] = o.reg]
         /\ commits' = o.commits
  /\ UNCHANGED <<threadVars, identity, kpStore, keyPackages, messages, hostVars, nextGroup, applied>>

AddMember(c) == Len(commits) < MaxCommits /\ AddMemberCall(c)

\* The commit a call merged into the session under group_id, if any.
Merged(c, group_id, reg) ==
  IF group_id \in DOMAIN groups[c] /\ reg[group_id].st # groups[c][group_id].st
  THEN {reg[group_id].st}
  ELSE {}

ProcessCommit(c) ==
  /\ \E group_id \in GroupIdInputs, input \in MessageInputs :
       \E o \in process_commit(c, group_id, input) :
         /\ groups' = [groups EXCEPT ![c] = o.reg]
         /\ applied' = [applied EXCEPT ![c] = @ \cup Merged(c, group_id, o.reg)]
  /\ UNCHANGED <<threadVars, identity, kpStore, netVars, hostVars, nextGroup>>

ProcessWelcome(c) ==
  /\ \E input \in MessageInputs : \E o \in process_welcome(c, input) :
       /\ groups' = [groups EXCEPT ![c] = o.reg]
       /\ kpStore' = [kpStore EXCEPT ![c] = o.store]
  /\ UNCHANGED <<threadVars, identity, netVars, hostVars, nextGroup, applied>>

EncryptMessage(c) ==
  /\ Len(messages) < MaxMessages
  /\ \E group_id \in GroupIdInputs, plaintext \in Plaintexts :
       \E o \in encrypt_message(c, group_id, plaintext) :
         /\ messages' = o.messages
         /\ groups' = [groups EXCEPT ![c] = o.reg]
  /\ UNCHANGED <<threadVars, identity, kpStore, keyPackages, commits, hostVars, nextGroup, applied>>

DecryptMessage(c) ==
  /\ \E group_id \in GroupIdInputs, input \in MessageInputs :
       \E o \in decrypt_message(c, group_id, input) :
         groups' = [groups EXCEPT ![c] = o.reg]
  /\ UNCHANGED <<threadVars, identity, kpStore, netVars, hostVars, nextGroup, applied>>

SaveState(c) ==
  /\ c \in Hosts
  /\ \E o \in save_state(c) :
       /\ disk' = [disk EXCEPT ![c] = o.disk]
       /\ groups' = [groups EXCEPT ![c] = o.reg]
  /\ UNCHANGED <<threadVars, identity, kpStore, netVars, incarnation, nextGroup, applied>>

LoadState(c) ==
  /\ c \in Hosts
  /\ \E o \in load_state(c) : groups' = [groups EXCEPT ![c] = o.reg]
  /\ UNCHANGED <<threadVars, identity, kpStore, netVars, hostVars, nextGroup, applied>>

ListSavedGroups(c) ==
  /\ c \in Hosts
  /\ \E o \in list_saved_groups(c) : groups' = [groups EXCEPT ![c] = o.reg]
  /\ UNCHANGED <<threadVars, identity, kpStore, netVars, hostVars, nextGroup, applied>>

\* A restart: the process ends and a new MlsClient is made on the same path.
Restart(c) ==
  /\ c \in Hosts
  /\ incarnation[c] < MaxRestarts
  /\ incarnation' = [incarnation EXCEPT ![c] = @ + 1]
  /\ identity' = [identity EXCEPT ![c] = new(c).identity]
  /\ groups' = [groups EXCEPT ![c] = new(c).reg]
  /\ kpStore' = [kpStore EXCEPT ![c] = new(c).store]
  /\ applied' = [applied EXCEPT ![c] = {}]
  /\ UNCHANGED <<threadVars, netVars, disk, nextGroup>>

\* ------------------------------------------------------------ specification

Next ==
  \E c \in Clients :
    \/ CreateIdentity(c)
    \/ ListActiveGroups(c)
    \/ GetGroupInfo(c)
    \/ CreateGroup(c)
    \/ AddMember(c)
    \/ ProcessCommit(c)
    \/ ProcessWelcome(c)
    \/ EncryptMessage(c)
    \/ DecryptMessage(c)
    \/ SaveState(c)
    \/ LoadState(c)
    \/ ListSavedGroups(c)
    \/ Restart(c)

Spec == Init /\ [][Next]_vars

\* One client on its own: it creates a group, issues key packages, adds them
\* to its group, and processes the welcomes and commits this produces.
SoloCreateIdentity == Len(keyPackages) < MaxSoloKeyPackages /\ CreateIdentityCall("A")

SoloCreateGroup == CreateGroup("A")

SoloAddMember == Len(commits) < MaxSoloCommits /\ AddMemberCall("A")

SoloProcessWelcome == ProcessWelcome("A")

SoloProcessCommit == ProcessCommit("A")

SoloNext ==
  \/ SoloCreateIdentity
  \/ SoloCreateGroup
  \/ SoloAddMember
  \/ SoloProcessWelcome
  \/ SoloProcessCommit

SoloSpec == Init /\ [][SoloNext]_vars

\* One client that holds several groups.
PairCreateGroup == nextGroup < MaxPairGroups /\ CreateGroupCall("A")

PairCreateIdentity == CreateIdentity("A")

PairAddMember == AddMember("A")

PairProcessCommit == ProcessCommit("A")

PairProcessWelcome == ProcessWelcome("A")

PairEncryptMessage == EncryptMessage("A")

PairDecryptMessage == DecryptMessage("A")

PairGetGroupInfo == GetGroupInfo("A")

PairNext ==
  \/ PairCreateGroup
  \/ PairCreateIdentity
  \/ PairAddMember
  \/ PairProcessCommit
  \/ PairProcessWelcome
  \/ PairEncryptMessage
  \/ PairDecryptMessage
  \/ PairGetGroupInfo

PairSpec == Init /\ [][PairNext]_vars

\* One client that holds several groups and checkpoints them.
CheckpointSaveState == SaveState("A")

CheckpointNext == PairNext \/ CheckpointSaveState

CheckpointSpec == Init /\ [][CheckpointNext]_vars

\* ----------------------------------------------------------------- threads

\* Several threads of one host application call into the MlsClient of client
\* "A". A call of an operation that begins with state.lock() waits for the
\* Mutex, runs its body, and gives the Mutex up when its guard is dropped on
\* return; load_state and list_saved_groups take no lock.
Threaded == "A"

LockedOps ==
  {"create_identity", "list_active_groups", "get_group_info", "create_group",
   "add_member", "process_commit", "process_welcome", "encrypt_message",
   "decrypt_message", "save_state"}

UnlockedOps == {"load_state", "list_saved_groups"}

\* Where a thread that runs the body of a call can be.
InBody == {"body", "saving", "writing", "return"}

\* The arguments a caller can pass to an operation.
ArgsOf(op) ==
  CASE op = "create_identity" -> {[group_id |-> <<>>, input |-> name] : name \in Names}
    [] op = "get_group_info" -> {[group_id |-> g, input |-> <<>>] : g \in GroupIdInputs}
    [] op = "add_member" ->
         {[group_id |-> g, input |-> i] : g \in GroupIdInputs, i \in KeyPackageInputs}
    [] op \in {"process_commit", "decrypt_message"} ->
         {[group_id |-> g, input |-> i] : g \in GroupIdInputs, i \in MessageInputs}
    [] op = "process_welcome" -> {[group_id |-> <<>>, input |-> i] : i \in MessageInputs}
    [] op = "encrypt_message" ->
         {[group_id |-> g, input |-> text] : g \in GroupIdInputs, text \in Plaintexts}
    [] OTHER -> {[group_id |-> <<>>, input |-> <<>>]}

\* A call that returns res and leaves the client and the network as they are.
Kept(res) ==
  [res |-> res, reg |-> groups[Threaded], store |-> kpStore[Threaded],
   identity |-> identity[Threaded], keyPackages |-> keyPackages, commits |-> commits,
   messages |-> messages]

\* What a call of op with arguments a returns and leaves behind in memory,
\* run from the current state: one effect per outcome of the operation.
EffectsOf(op, a) ==
  CASE op = "create_identity" ->
         {[Kept(o.res) EXCEPT !.reg = o.reg, !.store = o.store, !.identity = o.identity,
                              !.keyPackages = o.keyPackages] :
            o \in create_identity(Threaded, a.input)}
    [] op = "list_active_groups" -> {Kept(list_active_groups(Threaded))}
    [] op = "get_group_info" -> {Kept(get_group_info(Threaded, a.group_id))}
    [] op = "create_group" ->
         {[Kept(o.res) EXCEPT !.reg = o.reg] : o \in create_group(Threaded)}
    [] op = "add_member" ->
         {[Kept(o.res) EXCEPT !.reg = o.reg, !.commits = o.commits] :
            o \in add_member(Threaded, a.group_id, a.input)}
    [] op = "process_commit" ->
         {[Kept(o.res) EXCEPT !.reg = o.reg] :
            o \in process_commit(Threaded, a.group_id, a.input)}
    [] op = "process_welcome" ->
         {[Kept(o.res) EXCEPT !.reg = o.reg, !.store = o.store] :
            o \in process_welcome(Threaded, a.input)}
    [] op = "encrypt_message" ->
         {[Kept(o.res) EXCEPT !.reg = o.reg, !.messages = o.messages] :
            o \in encrypt_message(Threaded, a.group_id, a.input)}
    [] op = "decrypt_message" ->
         {[Kept(o.res) EXCEPT !.reg = o.reg] :
            o \in decrypt_message(Threaded, a.group_id, a.input)}
    [] op = "load_state" ->
         {[Kept(o.res) EXCEPT !.reg = o.reg] : o \in load_state(Threaded)}
    [] op = "list_saved_groups" ->
         {[Kept(o.res) EXCEPT !.reg = o.reg] : o \in list_saved_groups(Threaded)}

\* The calls of op that are under way.
InFlight(op) == Cardinality({t \in Threads : calls[t].op = op})

\* The host makes no more calls of an operation than the run has room for.
WithinBounds(op) ==
  CASE op = "create_identity" -> Len(keyPackages) + InFlight(op) < MaxThreadKeyPackages
    [] op = "create_group" -> nextGroup + InFlight(op) < MaxThreadGroups
    [] op = "add_member" -> Len(commits) + InFlight(op) < MaxThreadCommits
    [] op = "encrypt_message" -> Len(messages) + InFlight(op) < MaxThreadMessages
    [] OTHER -> TRUE

clientVars == <<groups, identity, kpStore, netVars, incarnation, nextGroup, applied>>

\* A thread enters an operation: a locked one stops at state.lock(), the two
\* readers of the storage directory go straight into their body.
Invoke(t) ==
  /\ calls[t].pc = "idle"
  /\ \E op \in LockedOps \cup UnlockedOps :
       /\ WithinBounds(op)
       /\ calls' = [calls EXCEPT ![t] =
            [NoCall EXCEPT !.op = op, !.pc = IF op \in LockedOps THEN "lock" ELSE "body"]]
  /\ UNCHANGED <<clientVars, disk, lock>>

\* A Mutex that lets every caller in.
CanLockAlways(t) == TRUE

\* Mutex::lock returns once no thread holds the Mutex.
CanLock(t) == lock = 0

\* let state = self.state.lock().unwrap()
Acquire(t) ==
  /\ calls[t].pc = "lock"
  /\ CanLock(t)
  /\ lock' = t
  /\ calls' = [calls EXCEPT ![t].pc = "body"]
  /\ UNCHANGED <<clientVars, disk>>

\* The body of every locked operation but save_state, from its first
\* statement to the value it is about to return.
Body(t) ==
  /\ calls[t].pc = "body"
  /\ calls[t].op \in LockedOps \ {"save_state"}
  /\ \E a \in ArgsOf(calls[t].op) : \E e \in EffectsOf(calls[t].op, a) :
       calls' = [calls EXCEPT ![t].pc = "return", ![t].arg = a, ![t].out = e]
  /\ UNCHANGED <<clientVars, disk, lock>>

\* save_state: fs::create_dir_all.
SaveCreateDir(t) ==
  /\ calls[t].pc = "body"
  /\ calls[t].op = "save_state"
  /\ \/ /\ calls' = [calls EXCEPT ![t].pc = "return", ![t].out = Kept(Err("IoError"))]
        /\ UNCHANGED disk
     \/ /\ disk' = [disk EXCEPT ![Threaded].exists = TRUE]
        /\ calls' = [calls EXCEPT ![t].pc = "saving"]
  /\ UNCHANGED <<clientVars, lock>>

\* The files of the directory with the file named key holding `file`.
WithFile(files, key, file) ==
  [k \in (DOMAIN files) \cup {key} |-> IF k = key THEN file ELSE files[k]]

\* save_state: the next group of the loop, up to the moment fs::write has
\* created or truncated its file; the export, the serialization or the
\* creation may fail.
SaveOpen(t) ==
  /\ calls[t].pc = "saving"
  /\ \E key \in (DOMAIN groups[Threaded]) \ calls[t].done :
       \/ /\ \E kind \in {"Generic", "SerializationError", "IoError"} :
               calls' = [calls EXCEPT ![t].pc = "return", ![t].out = Kept(Err(kind))]
          /\ UNCHANGED disk
       \/ /\ disk' = [disk EXCEPT ![Threaded].files = WithFile(@, key, TornFile)]
          /\ calls' = [calls EXCEPT ![t].pc = "writing", ![t].cur = key]
  /\ UNCHANGED <<clientVars, lock>>

\* save_state: fs::write puts the record into the file it opened, or fails
\* and leaves the file as it is.
SaveWrite(t) ==
  /\ calls[t].pc = "writing"
  /\ \/ /\ calls' = [calls EXCEPT ![t].pc = "return", ![t].out = Kept(Err("IoError"))]
        /\ UNCHANGED disk
     \/ /\ disk' = [disk EXCEPT ![Threaded].files =
                      WithFile(@, calls[t].cur, GroupStateOf(Threaded, calls[t].cur))]
        /\ calls' = [calls EXCEPT ![t].pc = "saving", ![t].done = @ \cup {calls[t].cur}]
  /\ UNCHANGED <<clientVars, lock>>

\* save_state: the loop has visited every group.
SaveDone(t) ==
  /\ calls[t].pc = "saving"
  /\ calls[t].done = DOMAIN groups[Threaded]
  /\ calls' = [calls EXCEPT ![t].pc = "return", ![t].out = Kept(Ok(<<>>))]
  /\ UNCHANGED <<clientVars, disk, lock>>

\* A guard that is dropped only when the call succeeds.
LockAfterSuccess(t) == IF calls[t].out.res.kind = "Ok" THEN 0 ELSE lock

\* The MutexGuard `state` is dropped wherever the function returns, through
\* `?` as much as through the final Ok.
LockAfter(t) == 0

\* A locked call returns: what its body did is in the client, and its guard
\* is dropped.
Return(t) ==
  /\ calls[t].pc = "return"
  /\ calls[t].op \in LockedOps
  /\ LET call == calls[t] IN
       /\ groups' = [groups EXCEPT ![Threaded] = call.out.reg]
       /\ kpStore' = [kpStore EXCEPT ![Threaded] = call.out.store]
       /\ identity' = [identity EXCEPT ![Threaded] = call.out.identity]
       /\ keyPackages' = call.out.keyPackages
       /\ commits' = call.out.commits
       /\ messages' = call.out.messages
       /\ nextGroup' = IF call.op = "create_group" /\ call.out.res.kind = "Ok"
                       THEN nextGroup + 1 ELSE nextGroup
       /\ applied' = IF call.op = "process_commit"
                     THEN [applied EXCEPT ![Threaded] =
                             @ \cup Merged(Threaded, call.arg.group_id, call.out.reg)]
                     ELSE applied
  /\ lock' = LockAfter(t)
  /\ calls' = [calls EXCEPT ![t] = NoCall]
  /\ UNCHANGED <<disk, incarnation>>

\* load_state or list_saved_groups reads the directory as it is now and
\* returns: it holds no guard, and nothing of what it read stays in the
\* client.
Read(t) ==
  /\ calls[t].pc = "body"
  /\ calls[t].op \in UnlockedOps
  /\ \E a \in ArgsOf(calls[t].op) : \E e \in EffectsOf(calls[t].op, a) :
       groups' = [groups EXCEPT ![Threaded] = e.reg]
  /\ calls' = [calls EXCEPT ![t] = NoCall]
  /\ UNCHANGED <<identity, kpStore, netVars, incarnation, nextGroup, applied, disk, lock>>

\* What a thread does once it is inside a call and not waiting for the lock.
Run(t) ==
  \/ Body(t)
  \/ SaveCreateDir(t)
  \/ SaveOpen(t)
  \/ SaveWrite(t)
  \/ SaveDone(t)
  \/ Return(t)
  \/ Read(t)

ThreadNext ==
  \E t \in Threads :
    \/ Invoke(t)
    \/ Acquire(t)
    \/ Body(t)
    \/ SaveCreateDir(t)
    \/ SaveOpen(t)
    \/ SaveWrite(t)
    \/ SaveDone(t)
    \/ Return(t)
    \/ Read(t)

ThreadSpec == Init /\ [][ThreadNext]_vars

\* Fair scheduling: a thread that can run does run, and a thread that waits
\* for the Mutex gets it if it is free again and again.
FairThreadSpec ==
  /\ Init
  /\ [][ThreadNext]_vars
  /\ \A t \in Threads : WF_vars(Run(t)) /\ SF_vars(Acquire(t))

\* ------------------------------------------------------------------ claims

\* The outcomes of a call that no fault struck.
Unfaulted(outcomes) == {o \in outcomes : o.fault = "none"}

\* The message a wire text decodes to.
Decoded(input) == DeserializeMessage(HexDecode(input).bytes)

\* C1: whichever step fails, an add_member or process_commit call that
\* returns an error leaves the registry, and with it the epoch of the session
\* it names, as it was before the call.
AtomicityOnFailure ==
  \A c \in Clients, group_id \in GroupIdInputs :
    /\ \A input \in KeyPackageInputs : \A o \in add_member(c, group_id, input) :
         o.res.kind # "Ok" => o.reg = groups[c]
    /\ \A input \in MessageInputs : \A o \in process_commit(c, group_id, input) :
         o.res.kind # "Ok" => o.reg = groups[c]

\* C2: for a group id that is no key of the registry, every group-scoped
\* operation fails with GroupNotFound carrying that id, whatever its other
\* argument is.
UnknownGroupIsNotFound ==
  \A c \in Clients, group_id \in GroupIdInputs :
    group_id \notin DOMAIN groups[c] =>
      /\ get_group_info(c, group_id) = GroupNotFound(group_id)
      /\ \A input \in KeyPackageInputs : \A o \in Unfaulted(add_member(c, group_id, input)) :
           o.res = GroupNotFound(group_id)
      /\ \A input \in MessageInputs : \A o \in Unfaulted(process_commit(c, group_id, input)) :
           o.res = GroupNotFound(group_id)
      /\ \A plaintext \in Plaintexts : \A o \in Unfaulted(encrypt_message(c, group_id, plaintext)) :
           o.res = GroupNotFound(group_id)
      /\ \A input \in MessageInputs : \A o \in Unfaulted(decrypt_message(c, group_id, input)) :
           o.res = GroupNotFound(group_id)

\* C3: for every session in a client's registry, created or joined, the
\* signature key of the client's own leaf is the public key of the signer
\* held in the client's state, with which it signs what it emits.
IdentityInvariant ==
  \A c \in Clients : \A key \in DOMAIN groups[c] :
    groups[c][key].leaf = PublicKey(identity[c].signer)

ProcessCommitAlwaysAdvances ==
  \A c \in Clients, group_id \in GroupIdInputs, input \in MessageInputs :
    \A o \in process_commit(c, group_id, input) :
      o.res.kind = "Ok" => o.reg[group_id].epoch = groups[c][group_id].epoch + 1

\* C6: a process_commit call that succeeds leaves the session one epoch on
\* if the message is a commit, and at its epoch if it is any other protocol
\* message.
ProcessCommitAdvancesOnCommit ==
  \A c \in Clients, group_id \in GroupIdInputs, input \in MessageInputs :
    \A o \in process_commit(c, group_id, input) :
      o.res.kind = "Ok" =>
        o.reg[group_id].epoch =
          groups[c][group_id].epoch + (IF Decoded(input).kind = "commit" THEN 1 ELSE 0)

\* A client has merged a peer's commit through process_commit, and a client
\* can pass an application message to process_commit with success.
ProcessCommitActed ==
  /\ \E c \in Clients : applied[c] # {}
  /\ \E c \in Clients, group_id \in GroupIdInputs, input \in MessageInputs :
       \E o \in process_commit(c, group_id, input) :
         o.res.kind = "Ok" /\ Decoded(input).kind = "application"

JoinAgreement ==
  \A c \in Clients : \A i \in SentCommits :
    /\ commits[i].kp \in kpStore[c]
    /\ HexEncode(commits[i].gid) \notin DOMAIN groups[c]
    =>
      \A o \in Unfaulted(process_welcome(c, MessageText["welcome", i])) :
        /\ o.res = Ok(HexEncode(commits[i].gid))
        /\ HexEncode(commits[i].gid) \in DOMAIN o.reg
        /\ o.reg[HexEncode(commits[i].gid)].epoch = commits[i].epoch

\* C9: a ciphertext that a member made with encrypt_message, passed at once
\* to decrypt_message by another member in the same epoch of the group,
\* decrypts to the plaintext.
RoundTrip ==
  \A c \in Clients : \A key \in DOMAIN groups[c] : \A i \in 1..Len(messages) :
    /\ messages[i].gid = groups[c][key].gid
    /\ messages[i].st = groups[c][key].st
    /\ messages[i].sender # groups[c][key].leaf
    /\ <<"application", i>> \notin groups[c][key].used
    => \A o \in Unfaulted(decrypt_message(c, key, MessageText["application", i])) :
         o.res = Ok(messages[i].plaintext)

\* What list_saved_groups can return when no fault strikes.
SavedGroups(c) == {o.res : o \in Unfaulted(list_saved_groups(c))}

\* C10: a restart leaves list_saved_groups returning what it returned before
\* and list_active_groups returning the empty set, and no load_state or
\* list_saved_groups call changes the registry.
NonResumable ==
  [][\A c \in Clients :
       /\ incarnation'[c] # incarnation[c] =>
            /\ SavedGroups(c)' = SavedGroups(c)
            /\ list_active_groups(c)' = Ok({})
       /\ \A o \in load_state(c) : o.reg = groups[c]
       /\ \A o \in list_saved_groups(c) : o.reg = groups[c]]_vars

\* A client that saved its sessions and was restarted: the records are on
\* disk and the registry is empty.
RestartedAfterSave ==
  \E c \in Clients :
    /\ incarnation[c] > 0
    /\ groups[c] = EmptyRegistry
    /\ \E saved \in SavedGroups(c) : saved.kind = "Ok" /\ saved.val # {}
    /\ \E o \in load_state(c) : o.res.kind = "Ok"

\* C11: a create_group call that succeeds leaves the identifier it returns
\* in the registry (list_active_groups holds it) with a session at epoch 0;
\* when the engine fails, the call returns Generic and the registry is as
\* it was.
CreateGroupRegisters ==
  \A c \in Clients : \A o \in create_group(c) :
    /\ o.res.kind = "Ok" =>
         /\ o.res.val \in DOMAIN o.reg
         /\ o.reg[o.res.val].epoch = 0
         /\ DOMAIN o.reg = (DOMAIN groups[c]) \cup {o.res.val}
    /\ o.fault # "none" => o.res = Err("Generic") /\ o.reg = groups[c]
    /\ o.res.kind \in {"Ok", "Generic"}

\* A client holds a session that create_group registered, still at epoch 0,
\* and list_active_groups returns its identifier.
GroupCreated ==
  \E c \in Clients : \E key \in DOMAIN groups[c] :
    /\ groups[c][key].st = 0
    /\ groups[c][key].epoch = 0
    /\ key \in list_active_groups(c).val
    /\ nextGroup > 0

\* C12: when the message resolves to something other than an application
\* message (a commit of another member), decrypt_message returns the empty
\* string and leaves the session as if the call had not been made.
DecryptIsSpeculative ==
  \A c \in Clients : \A group_id \in DOMAIN groups[c] : \A input \in MessageInputs :
    /\ Decoded(input).kind = "commit"
    /\ ProcessMessage(groups[c][group_id], Decoded(input)).ok
    => \A o \in Unfaulted(decrypt_message(c, group_id, input)) :
         o.res = Ok("") /\ o.reg = groups[c]

\* Text that hex::decode refuses.
IsMalformedHex(input) == ~HexDecode(input).ok

\* C13: malformed hex (odd length, or a character that is no hex digit)
\* given as the key package to add_member, the commit to process_commit,
\* the welcome to process_welcome or the ciphertext to decrypt_message
\* yields SerializationError and leaves the registry unchanged.
MalformedHexIsSerializationError ==
  \A c \in Clients :
    /\ \A input \in {i \in MessageInputs : IsMalformedHex(i)} :
         /\ \A o \in process_welcome(c, input) :
              o.res = Err("SerializationError") /\ o.reg = groups[c]
         /\ \A group_id \in GroupIdInputs :
              /\ \A o \in process_commit(c, group_id, input) :
                   o.res = Err("SerializationError") /\ o.reg = groups[c]
              /\ \A o \in decrypt_message(c, group_id, input) :
                   o.res = Err("SerializationError") /\ o.reg = groups[c]
    /\ \A input \in {i \in KeyPackageInputs : IsMalformedHex(i)} :
         \A group_id \in GroupIdInputs : \A o \in add_member(c, group_id, input) :
           o.res = Err("SerializationError") /\ o.reg = groups[c]

\* Odd-length text and text with a non-hex character reach a client whose
\* registry holds a session past epoch 0, for a known and an unknown group.
MalformedHexPresented ==
  /\ \E i \in MessageInputs : IsMalformedHex(i) /\ Len(i) % 2 = 1
  /\ \E i \in KeyPackageInputs : IsMalformedHex(i) /\ Len(i) % 2 = 0
  /\ \E c \in Clients : \E key \in DOMAIN groups[c] :
       /\ groups[c][key].epoch > 0
       /\ key \in GroupIdInputs
       /\ GroupIdInputs \ DOMAIN groups[c] # {}
       /\ \E i \in MessageInputs : \E o \in decrypt_message(c, key, i) :
            o.res = Err("SerializationError")

\* The file holds the record of the session client c has under key.
IsRecordOf(file, c, key) ==
  file.intact /\ file.group_id = key /\ file.epoch = groups[c][key].epoch

\* The files of `after` that are not in `before` as they are.
Written(before, after) ==
  {k \in DOMAIN after : k \notin DOMAIN before \/ after[k] # before[k]}

\* C14: a save_state that succeeds leaves, for every session of the
\* registry, one record under its identifier holding that identifier and the
\* session's epoch, in place of any earlier record; a save_state that fails
\* stops short of some group, and the records it did write hold those same
\* values; either way the registry is as it was.
CheckpointConsistency ==
  \A c \in Clients : \A o \in save_state(c) :
    /\ o.reg = groups[c]
    /\ o.res.kind = "Ok" =>
         \A key \in DOMAIN groups[c] :
           key \in DOMAIN o.disk.files /\ IsRecordOf(o.disk.files[key], c, key)
    /\ o.res.kind # "Ok" =>
         /\ \A key \in Written(disk[c].files, o.disk.files) :
              o.disk.files[key].intact =>
                key \in DOMAIN groups[c] /\ IsRecordOf(o.disk.files[key], c, key)
         /\ o.fault # "create_dir_all" =>
              \E key \in DOMAIN groups[c] :
                \/ key \notin DOMAIN o.disk.files
                \/ ~o.disk.files[key].intact
                \/ key \in DOMAIN disk[c].files /\ o.disk.files[key] = disk[c].files[key]

\* A client's directory holds the record of a session past epoch 0 at the
\* session's epoch, and a save_state of its registry can write the record of
\* one group and fail at another.
CheckpointTaken ==
  \E c \in Clients : \E key \in DOMAIN groups[c] :
    /\ key \in DOMAIN disk[c].files
    /\ groups[c][key].epoch > 0
    /\ IsRecordOf(disk[c].files[key], c, key)
    /\ \E o \in save_state(c) :
         /\ o.res.kind # "Ok"
         /\ \E k \in Written(disk[c].files, o.disk.files) : o.disk.files[k].intact

\* The registry `reg` differs from client c's at most under the keys given.
OnlyTouches(c, reg, keys) ==
  \A k \in ((DOMAIN groups[c]) \cup (DOMAIN reg)) \ keys :
    k \in DOMAIN groups[c] /\ k \in DOMAIN reg /\ reg[k] = groups[c][k]

\* C18: an operation addressed to a group, whether it succeeds or fails,
\* leaves the session of every other registered group as it was, and
\* create_group and process_welcome add or replace only the entry of the
\* identifier they return.
CrossGroupIndependence ==
  \A c \in Clients :
    /\ \A group_id \in GroupIdInputs :
         /\ \A input \in KeyPackageInputs : \A o \in add_member(c, group_id, input) :
              OnlyTouches(c, o.reg, {group_id}) /\ DOMAIN o.reg = DOMAIN groups[c]
         /\ \A input \in MessageInputs :
              /\ \A o \in process_commit(c, group_id, input) :
                   OnlyTouches(c, o.reg, {group_id}) /\ DOMAIN o.reg = DOMAIN groups[c]
              /\ \A o \in decrypt_message(c, group_id, input) :
                   OnlyTouches(c, o.reg, {group_id}) /\ DOMAIN o.reg = DOMAIN groups[c]
         /\ \A plaintext \in Plaintexts : \A o \in encrypt_message(c, group_id, plaintext) :
              OnlyTouches(c, o.reg, {group_id}) /\ DOMAIN o.reg = DOMAIN groups[c]
    /\ \A o \in create_group(c) :
         OnlyTouches(c, o.reg, IF o.res.kind = "Ok" THEN {o.res.val} ELSE {})
    /\ \A input \in MessageInputs : \A o \in process_welcome(c, input) :
         OnlyTouches(c, o.reg, IF o.res.kind = "Ok" THEN {o.res.val} ELSE {})

\* A client holds two groups at different epochs, and can join the one anew
\* and commit to the other.
TwoGroupsApart ==
  \E c \in Clients : \E k1, k2 \in DOMAIN groups[c] :
    /\ k1 # k2
    /\ groups[c][k1].epoch > groups[c][k2].epoch
    /\ \E input \in MessageInputs : \E o \in process_welcome(c, input) :
         o.res = Ok(k1)
    /\ \E input \in KeyPackageInputs : \E o \in add_member(c, k2, input) :
         o.res.kind = "Ok"

\* The registry `reg` has the identifiers and the epochs of client c's.
SameEpochs(c, reg) ==
  /\ DOMAIN reg = DOMAIN groups[c]
  /\ \A k \in DOMAIN reg : reg[k].epoch = groups[c][k].epoch

\* C19: create_identity, encrypt_message, save_state, load_state and
\* list_saved_groups leave the identifiers and epochs of the registry as
\* they were, and the client's signer and credential are those made when
\* the client was constructed: create_identity does not replace them.
FixedIdentity ==
  \A c \in Clients :
    /\ identity[c] = NewIdentity(c, incarnation[c])
    /\ \A name \in Names : \A o \in create_identity(c, name) :
         o.identity = identity[c] /\ SameEpochs(c, o.reg)
    /\ \A group_id \in GroupIdInputs, plaintext \in Plaintexts :
         \A o \in encrypt_message(c, group_id, plaintext) : SameEpochs(c, o.reg)
    /\ \A o \in save_state(c) : SameEpochs(c, o.reg)
    /\ \A o \in load_state(c) : SameEpochs(c, o.reg)
    /\ \A o \in list_saved_groups(c) : SameEpochs(c, o.reg)

\* A client that has issued a key package, holds a session past epoch 0,
\* has encrypted a message in it and has saved its state.
ReadOnlyOperationsActed ==
  \E c \in Clients :
    /\ \E kp \in 1..Len(keyPackages) : keyPackages[kp].owner = c
    /\ \E i \in 1..Len(messages) : messages[i].sig = identity[c].signer
    /\ \E key \in DOMAIN groups[c] : groups[c][key].epoch > 0
    /\ disk[c].exists

\* Text made of lowercase hex digits only.
IsLowerHex(text) == \A i \in 1..Len(text) : text[i] \in {HexDigits[j] : j \in 1..16}

\* C20: no operation removes an identifier from the registry, and every
\* key of the registry is the lowercase hex of the group id of the session
\* it maps to.
RegistryGrowsWellKeyed ==
  \A c \in Clients :
    /\ \A key \in DOMAIN groups[c] :
         /\ IsLowerHex(key)
         /\ HexDecode(key).ok
         /\ HexDecode(key).bytes = groups[c][key].gid
    /\ \A name \in Names : \A o \in create_identity(c, name) : DOMAIN groups[c] \subseteq DOMAIN o.reg
    /\ \A o \in create_group(c) : DOMAIN groups[c] \subseteq DOMAIN o.reg
    /\ \A o \in save_state(c) : DOMAIN groups[c] \subseteq DOMAIN o.reg
    /\ \A o \in load_state(c) : DOMAIN groups[c] \subseteq DOMAIN o.reg
    /\ \A o \in list_saved_groups(c) : DOMAIN groups[c] \subseteq DOMAIN o.reg
    /\ \A input \in MessageInputs : \A o \in process_welcome(c, input) :
         DOMAIN groups[c] \subseteq DOMAIN o.reg
    /\ \A group_id \in GroupIdInputs :
         /\ \A input \in KeyPackageInputs : \A o \in add_member(c, group_id, input) :
              DOMAIN groups[c] \subseteq DOMAIN o.reg
         /\ \A input \in MessageInputs : \A o \in process_commit(c, group_id, input) :
              DOMAIN groups[c] \subseteq DOMAIN o.reg
         /\ \A input \in MessageInputs : \A o \in decrypt_message(c, group_id, input) :
              DOMAIN groups[c] \subseteq DOMAIN o.reg
         /\ \A plaintext \in Plaintexts : \A o \in encrypt_message(c, group_id, plaintext) :
              DOMAIN groups[c] \subseteq DOMAIN o.reg

\* A client holds two groups, one of them registered by process_welcome.
RegistryOfTwo ==
  \E c \in Clients :
    /\ Cardinality(DOMAIN groups[c]) = 2
    /\ \E key \in DOMAIN groups[c] : groups[c][key].leaf.by = "create_identity"
    /\ \E key \in DOMAIN groups[c] : groups[c][key].leaf.by = "new"

\* The calls that are inside their critical section.
Inside == {t \in Threads : calls[t].op \in LockedOps /\ calls[t].pc \in InBody}

\* C15: a thread that runs the body of one of the ten locked operations
\* holds the lock from the first statement of the body to the return, so at
\* most one such call is inside its critical section; and what a call is
\* about to return and leave behind is what the same call, run on its own
\* from the state the client is in at that moment, returns and leaves
\* behind: the concurrent run is the sequential run of the calls in the
\* order of their returns.
SerializedAccess ==
  /\ \A t \in Inside : lock = t
  /\ Cardinality(Inside) <= 1
  /\ \A t \in Inside : calls[t].pc = "return" =>
       IF calls[t].op = "save_state"
       THEN \E o \in save_state(Threaded) :
              /\ o.res = calls[t].out.res
              /\ o.disk = disk[Threaded]
              /\ o.reg = calls[t].out.reg
       ELSE calls[t].out \in EffectsOf(calls[t].op, calls[t].arg)

\* A save_state that wrote a record is about to return while an add_member
\* of another thread waits for the lock.
ConcurrentCallers ==
  \E t \in Threads, u \in Threads :
    /\ calls[t].pc = "return"
    /\ calls[t].out.res.kind = "Ok"
    /\ calls[t].op = "save_state"
    /\ calls[t].done # {}
    /\ calls[u].pc = "lock"
    /\ calls[u].op = "add_member"

\* The threads whose save_state has opened a file and not yet written it.
MidWrite == {t \in Threads : calls[t].pc = "writing"}

\* C16: a list_saved_groups that reads the directory while a save_state is
\* between two of its steps returns Ok with the identifiers of records that
\* are written in full, whenever every file but the one being written is a
\* whole record.
ListSavedGroupsSeesWholeRecords ==
  \A t \in Threads :
    /\ calls[t].pc = "body"
    /\ calls[t].op = "list_saved_groups"
    /\ \E u \in Threads : calls[u].op = "save_state" /\ calls[u].pc \in {"saving", "writing"}
    /\ \A k \in DOMAIN disk[Threaded].files :
         disk[Threaded].files[k].intact \/ \E u \in MidWrite : calls[u].cur = k
    => \A o \in Unfaulted(list_saved_groups(Threaded)) :
         /\ o.res.kind = "Ok"
         /\ o.res.val \subseteq {k \in DOMAIN disk[Threaded].files :
                                   IsRecordOf(disk[Threaded].files[k], Threaded, k)}

\* C17: under fair scheduling every call that was invoked returns; the lock
\* is held only by a thread that is inside a locked call, so a call that
\* returned, with a result or with an error, has given it up; and in every
\* state some thread can take a step.
Progress ==
  /\ \A t \in Threads : (calls[t].pc # "idle") ~> (calls[t].pc = "idle")
  /\ [](lock # 0 => lock \in Inside)
  /\ [](ENABLED ThreadNext)

\* A locked call is about to return an error while another locked call waits
\* for the lock it holds.
FailingCallHoldsLock ==
  \E t \in Threads, u \in Threads :
    /\ calls[t].pc = "return"
    /\ calls[t].op = "process_commit"
    /\ calls[t].out.res.kind # "Ok"
    /\ lock = t
    /\ calls[u].pc = "lock"

\* C21: process_welcome of a well-formed message that is no welcome, a
\* commit or an application message, returns Generic; and every
\* process_welcome that fails, at the decoding, at the message type, at the
\* staging or at the finalization, leaves the registry as it was.
ProcessWelcomeRejectsOtherMessages ==
  \A c \in Clients : \A input \in MessageInputs \cup KeyPackageInputs :
    \A o \in process_welcome(c, input) :
      /\ Decoded(input).ok /\ IsProtocolMessage(Decoded(input)) => o.res = Err("Generic")
      /\ o.res.kind # "Ok" => o.reg = groups[c]

\* A client that holds a session is handed a commit and an application
\* message as welcomes, a welcome made for another client, and a welcome of
\* its own whose finalization fails.
OtherMessagesPresented ==
  \E c \in Clients :
    /\ DOMAIN groups[c] # {}
    /\ \E input \in MessageInputs : \E o \in process_welcome(c, input) :
         Decoded(input).ok /\ Decoded(input).kind = "commit" /\ o.res = Err("Generic")
    /\ \E input \in MessageInputs : \E o \in process_welcome(c, input) :
         Decoded(input).ok /\ Decoded(input).kind = "application" /\ o.res = Err("Generic")
    /\ \E input \in MessageInputs :
         /\ Decoded(input).ok /\ Decoded(input).kind = "welcome"
         /\ commits[Decoded(input).idx].kp \notin kpStore[c]
         /\ \E o \in process_welcome(c, input) : o.res = Err("Generic")
    /\ \E input \in MessageInputs : \E o \in process_welcome(c, input) :
         /\ Decoded(input).ok /\ Decoded(input).kind = "welcome"
         /\ o.fault = "into_group" /\ o.res = Err("Generic")

====
